---- MODULE Spec2Model ----
(***************************************************************************)
(* Model of the himawari-9-unheckifier scripts:                            *)
(*   src/render_imagery.py     (Himawari-9 + GOES-19 + GOES-18 composite)  *)
(*   src/render_h9_imagery.py  (Himawari-9 alone, main + overflow stitch)  *)
(*   src/grab_raw_*.py         (the downloaders that search back in time)  *)
(*                                                                         *)
(* Angles are integers in hundredths of a degree (0.1 deg = 10,            *)
(* 0.07 deg = 7, 180 deg = 18000).  A 2-D NumPy array is a record          *)
(* [h, w, d] with d[r][c] the cell of row r and column c; the shape is     *)
(* kept explicitly so that (H, 0) and (0, W) arrays are distinct.          *)
(* A cell is a finite temperature (>= 0), NaN or Inf.                      *)
(***************************************************************************)
EXTENDS Integers, Sequences, FiniteSets, TLC

\* ------------------------------------------------------------------------
\* Bounds of the model
\* ------------------------------------------------------------------------

\* Degrees per pixel of the grid on which whole fields are carried.
CoarseRes == 10

\* SpecGrid draws the resolution from 1..GridResMax hundredths of a degree.
GridResMax == 60

\* ------------------------------------------------------------------------
\* Program constants
\* ------------------------------------------------------------------------

LON_MIN_FULL == -18000
LAT_MIN_FULL == -9000
LON_MAX_FULL == 18000
LAT_MAX_FULL == 9000

\* The non-finite cell values: np.nan and an infinity.
NaN == -1
Inf == -2

\* The two scripts and the values each configures.
Scripts == {"render_imagery", "render_h9_imagery"}

ConfiguredResolution(s) == IF s = "render_imagery" THEN 10 ELSE 7

lon_overflow_start == 18000

lon_overflow_end(s) == IF s = "render_imagery" THEN 25000 ELSE 22500

\* The 110 W cutoff between GOES-18 and GOES-19.
GoesCutoff == -11000

Sats == {"h9", "g19", "g18"}

VARIABLES
    script,         \* which script runs
    resolution,     \* hundredths of a degree per pixel
    W_full, H_full, \* full grid dimensions
    lon_min_crop, lon_max_crop, lat_min_crop, lat_max_crop,
    fs,             \* per satellite, what the loader found in its raw directory
    pc,             \* position in the script
    error,          \* the exception that ended the script, or "none"
    scn,            \* loader local: the loaded scene
    arrA,           \* loader local: the main-window resample
    arrB,           \* loader local: the overflow-window resample
    W_B,            \* loader local: overflow width in columns
    arr_full,       \* loader local: the stitched array
    lon_mask,       \* per satellite, the columns its longitude mask keeps
    h9_arr, g19_arr, g18_arr,
    composite,
    arr_crop,
    scene_calls,    \* the satellites whose loader called the scene constructor
    dl,             \* which downloader runs
    now,            \* the downloader's clock reading, minutes from 2026-01-01 00:00 UTC
    dl_i,           \* downloader local: the loop index i
    visited,        \* the slots whose listing was requested, in order
    listing,        \* what the last listing request gave
    downloaded,     \* the slots from which an object was downloaded
    dl_ret,         \* what the downloader returned
    raw_dirs,       \* the local raw directories: pairs <<base directory, entry>>
    latest_dir      \* loader local: the directory the loader selected

vars == <<script, resolution, W_full, H_full,
          lon_min_crop, lon_max_crop, lat_min_crop, lat_max_crop,
          fs, pc, error, scn, arrA, arrB, W_B, arr_full, lon_mask,
          h9_arr, g19_arr, g18_arr, composite, arr_crop,
          scene_calls, dl, now, dl_i, visited, listing, downloaded, dl_ret,
          raw_dirs, latest_dir>>

\* ------------------------------------------------------------------------
\* Arithmetic
\* ------------------------------------------------------------------------

Abs(x) == IF x < 0 THEN -x ELSE x

\* Quotients a / b that the float division rounds to just below the whole
\* number (70 / 0.07 = 999.9999999999999, and likewise 0.14, 0.28, 0.56);
\* there are no others for the extents 45, 70, 180, 360 and b up to 30 deg.
FloatRoundsDown == {<<7000, 7>>, <<7000, 14>>, <<7000, 28>>, <<7000, 56>>}

\* Python's int(a / b): the float quotient truncated toward zero.
PyIntDiv(a, b) ==
    LET q == Abs(a) \div b
        t == IF <<Abs(a), b>> \in FloatRoundsDown THEN q - 1 ELSE q
    IN  IF a < 0 THEN -t ELSE t

Min(a, b) == IF a < b THEN a ELSE b
Max(a, b) == IF a > b THEN a ELSE b

\* ------------------------------------------------------------------------
\* Arrays
\* ------------------------------------------------------------------------

IsFinite(v) == v >= 0

Arr(h, w, F(_, _)) ==
    [h |-> h, w |-> w, d |-> [r \in 0..(h - 1) |-> [c \in 0..(w - 1) |-> F(r, c)]]]

NoArr == [h |-> 0, w |-> 0, d |-> << >>]

\* The bounds of the Python slice [start:stop] on an axis of length n.
SliceLo(start, n) == IF start < 0 THEN Max(start + n, 0) ELSE Min(start, n)
SliceHi(stop, n) == IF stop < 0 THEN Max(stop + n, 0) ELSE Min(stop, n)
SliceLen(start, stop, n) == Max(SliceHi(stop, n) - SliceLo(start, n), 0)

\* a[r0:r1, c0:c1]
Slice2D(a, r0, r1, c0, c1) ==
    LET rl == SliceLo(r0, a.h)
        cl == SliceLo(c0, a.w)
        LET_F(r, c) == a.d[rl + r][cl + c]
    IN  Arr(SliceLen(r0, r1, a.h), SliceLen(c0, c1, a.w), LET_F)

\* np.hstack([a, b]) of two arrays with the same number of rows
HStack(a, b) ==
    LET LET_F(r, c) == IF c < a.w THEN a.d[r][c] ELSE b.d[r][c - a.w]
    IN  Arr(a.h, a.w + b.w, LET_F)

\* The cast alone, without the isfinite test: an infinity stays.
NormaliseKeepsInf(a) ==
    LET LET_F(r, c) == a.d[r][c]
    IN  Arr(a.h, a.w, LET_F)

\* np.where(np.isfinite(a), a, np.nan)
Normalise(a) ==
    LET LET_F(r, c) == IF IsFinite(a.d[r][c]) THEN a.d[r][c] ELSE NaN
    IN  Arr(a.h, a.w, LET_F)

\* a with every column outside keep set to NaN:  a[~mask_2d] = np.nan
MaskColumns(a, keep) ==
    LET LET_F(r, c) == IF c \in keep THEN a.d[r][c] ELSE NaN
    IN  Arr(a.h, a.w, LET_F)

\* ------------------------------------------------------------------------
\* The scene loader and the resampler (satpy / pyresample, external)
\* ------------------------------------------------------------------------

\* Sub-satellite longitudes of the three spacecraft.
SubLon == [h9 |-> 14070, g19 |-> -7520, g18 |-> -13690]

\* Angular half-width of a full-disk scan.
DiskHalf == 8000

\* What a loaded scene can hold:
\*   empty  no valid pixel
\*   disk   valid within DiskHalf of the sub-satellite point, in longitude
\*          and in latitude
\*   seam   as disk, but a resample over the whole circle misses the part
\*          of the disk on the far side of the +-180 cut
\*   inf    as disk, with infinite values outside the disk
\*   full   valid everywhere
SceneKinds == {"empty", "disk", "seam", "inf", "full"}

\* What a loader can find: no timestamp directory, a latest directory with
\* no data file at all, a latest directory whose data files are all of
\* another band, files the scene loader cannot decode, or a scene.
Findings == {"nodirs", "nofiles", "otherband", "unreadable"} \cup SceneKinds

NoScene == [sat |-> "none", kind |-> "empty"]

SatBase(sat) == CASE sat = "h9" -> 100000 [] sat = "g19" -> 200000 [] OTHER -> 300000

\* Longitude brought into [0, 360)
LonE(lon) == (lon + 72000) % 36000

CircDist(a, b) == Min(LonE(a - b), LonE(b - a))

\* The temperature a scene holds at a place it sees.
Temp(sat, lon, lat) == SatBase(sat) + (LonE(lon) \div 100) * 200 + (lat + 9000) \div 100

Visible(s, lon, lat, wholeCircle) ==
    CASE s.kind = "empty" -> FALSE
      [] s.kind = "full"  -> TRUE
      [] s.kind = "seam" /\ wholeCircle ->
            Abs(lon - SubLon[s.sat]) <= DiskHalf /\ Abs(lat) <= DiskHalf
      [] OTHER ->
            CircDist(lon, SubLon[s.sat]) <= DiskHalf /\ Abs(lat) <= DiskHalf

SceneValue(s, lon, lat, wholeCircle) ==
    IF Visible(s, lon, lat, wholeCircle) THEN Temp(s.sat, lon, lat)
    ELSE IF s.kind = "inf" THEN Inf ELSE NaN

\* Centre longitude of column c and centre latitude of row r of an area
\* with extent [x0, y0, x1, y1] and w by h cells.
AreaLon(x0, x1, w, c) == x0 + (c * (x1 - x0)) \div w + (x1 - x0) \div (2 * w)
AreaLat(y0, y1, h, r) == y1 - (r * (y1 - y0)) \div h - (y1 - y0) \div (2 * h)

\* scn.resample(area_def, resampler='nearest', ...)[band].data.compute()
Resample(s, x0, y0, x1, y1, w, h) ==
    LET LET_F(r, c) == SceneValue(s, AreaLon(x0, x1, w, c), AreaLat(y0, y1, h, r),
                                  x1 - x0 >= 36000)
    IN  Arr(h, w, LET_F)

\* ------------------------------------------------------------------------
\* Grid dimensions
\* ------------------------------------------------------------------------

GridWidth(res) == PyIntDiv(LON_MAX_FULL - LON_MIN_FULL, res)
GridHeight(res) == PyIntDiv(LAT_MAX_FULL - LAT_MIN_FULL, res)

lon_min_B == lon_overflow_start - 36000
lon_max_B(s) == lon_overflow_end(s) - 36000

OverflowWidth(s, res) == PyIntDiv(lon_max_B(s) - lon_min_B, res)

\* ------------------------------------------------------------------------
\* Initial state
\* ------------------------------------------------------------------------

Req(a, b, c, d) == [lon_min |-> a, lon_max |-> b, lat_min |-> c, lat_max |-> d]

\* Crop windows a user may configure (lon_min, lon_max, lat_min, lat_max).
CropRequests ==
    { Req(-18000, 18000, -9000, 9000),
      Req(10000, 16000, -4000, 4000),
      Req(2000, 2000, -9000, 9000),
      Req(-18000, 18000, 3000, 3000),
      Req(17000, -17000, -9000, 9000),
      Req(17000, 19000, -9000, 9000),
      Req(-19000, -17000, -9000, 9000),
      Req(16000, 20000, -3000, 3000),
      Req(-18000, 18000, -10000, 10000) }

FullWindow == Req(LON_MIN_FULL, LON_MAX_FULL, LAT_MIN_FULL, LAT_MAX_FULL)

\* No downloader runs: the download variables are idle.
NoReturn == [kind |-> "unset", slot |-> 0, path |-> << >>]

InitNoDownload ==
    /\ dl = "none" /\ now = 0 /\ dl_i = 0
    /\ visited = << >> /\ listing = "none"
    /\ downloaded = {}
    /\ dl_ret = NoReturn
    /\ raw_dirs = {} /\ latest_dir = << >>

\* No renderer runs: grid, loader locals and fields are empty.
InitNoRender ==
    /\ W_full = 0 /\ H_full = 0
    /\ fs = [s \in Sats |-> "unread"]
    /\ error = "none"
    /\ scene_calls = {}
    /\ scn = NoScene
    /\ arrA = NoArr /\ arrB = NoArr /\ arr_full = NoArr
    /\ W_B = 0
    /\ lon_mask = [s \in Sats |-> {}]
    /\ h9_arr = NoArr /\ g19_arr = NoArr /\ g18_arr = NoArr
    /\ composite = NoArr
    /\ arr_crop = NoArr

InitCommon ==
    /\ pc = <<"main", "start">>
    /\ InitNoRender
    /\ InitNoDownload

Init ==
    /\ script \in Scripts
    /\ resolution = CoarseRes * 100
    /\ \E q \in (IF script = "render_imagery" THEN CropRequests ELSE {FullWindow}) :
          /\ lon_min_crop = q.lon_min /\ lon_max_crop = q.lon_max
          /\ lat_min_crop = q.lat_min /\ lat_max_crop = q.lat_max
    /\ InitCommon

cropVars == <<lon_min_crop, lon_max_crop, lat_min_crop, lat_max_crop>>
localVars == <<scn, arrA, arrB, W_B, arr_full, lon_mask>>
fieldVars == <<h9_arr, g19_arr, g18_arr>>
dlVars == <<dl, now, dl_i, visited, listing, downloaded, dl_ret, raw_dirs, latest_dir>>

\* ------------------------------------------------------------------------
\* Script start: the full grid dimensions
\* ------------------------------------------------------------------------

ComputeGrid ==
    /\ pc = <<"main", "start">>
    /\ W_full' = GridWidth(resolution)
    /\ H_full' = GridHeight(resolution)
    /\ pc' = IF script = "render_imagery" THEN <<"h9", "find">> ELSE <<"h9s", "find">>
    /\ UNCHANGED <<dlVars, scene_calls, script, resolution,
                   cropVars, fs, error, localVars, fieldVars,
                   composite, arr_crop>>

\* An uncaught exception ends the script.
Raise(e) ==
    /\ error' = e
    /\ pc' = <<"main", "aborted">>

\* ------------------------------------------------------------------------
\* render_imagery.py: load_and_resample_himawari
\* ------------------------------------------------------------------------

\* Lines 85-103: the latest directory, its .DAT files, the scene.  The
\* function has no check for an empty file list and no band filter: the
\* scene constructor is called with whatever .DAT files there are (none, or
\* those of another band), and the failure comes from the scene loader.
HimawariLoad ==
    /\ pc = <<"h9", "find">>
    /\ \E found \in Findings :
          /\ fs' = [fs EXCEPT !["h9"] = found]
          /\ scene_calls' = IF found \in {"nodirs"} THEN scene_calls
                                ELSE scene_calls \cup {"h9"}
          /\ CASE found = "nodirs" ->
                    Raise("ValueError: No valid directories found") /\ scn' = scn
               [] found = "nofiles" ->
                    Raise("scene loader: no files") /\ scn' = scn
               [] found = "otherband" ->
                    Raise("scene loader: unknown dataset") /\ scn' = scn
               [] found = "unreadable" ->
                    Raise("scene loader: decode error") /\ scn' = scn
               [] OTHER ->
                    /\ scn' = [sat |-> "h9", kind |-> found]
                    /\ pc' = <<"h9", "resample">>
                    /\ error' = error
    /\ UNCHANGED <<dlVars, script, resolution,
                   W_full, H_full, cropVars, arrA, arrB, W_B,
                   arr_full, lon_mask, fieldVars, composite, arr_crop>>

\* Lines 106-116: one resample over [-180, 180]
HimawariResample ==
    /\ pc = <<"h9", "resample">>
    /\ arrA' = Resample(scn, LON_MIN_FULL, LAT_MIN_FULL, 18000, LAT_MAX_FULL,
                        W_full, H_full)
    /\ pc' = <<"h9", "mask">>
    /\ UNCHANGED <<dlVars, scene_calls, script, resolution,
                   W_full, H_full, cropVars, fs, error, scn, arrB,
                   W_B, arr_full, lon_mask, fieldVars, composite, arr_crop>>

\* Lines 119-120: arr[lon > 180.0] = np.nan, lon the cell centres of the area
HimawariKeep ==
    {c \in 0..(W_full - 1) : ~(AreaLon(LON_MIN_FULL, 18000, W_full, c) > 18000)}

HimawariMask ==
    /\ pc = <<"h9", "mask">>
    /\ lon_mask' = [lon_mask EXCEPT !["h9"] = HimawariKeep]
    /\ arrA' = MaskColumns(arrA, HimawariKeep)
    /\ pc' = <<"h9", "return">>
    /\ UNCHANGED <<dlVars, scene_calls, script, resolution,
                   W_full, H_full, cropVars, fs, error, scn, arrB,
                   W_B, arr_full, fieldVars, composite, arr_crop>>

\* Lines 123-124 and 241: the returned field; the locals go out of scope
\* (the mask is kept for inspection).
HimawariReturn ==
    /\ pc = <<"h9", "return">>
    /\ h9_arr' = Normalise(arrA)
    /\ scn' = NoScene /\ arrA' = NoArr
    /\ pc' = <<"g19", "find">>
    /\ UNCHANGED <<dlVars, scene_calls, script, resolution,
                   W_full, H_full, cropVars, fs, error, arrB,
                   W_B, arr_full, lon_mask, g19_arr, g18_arr, composite, arr_crop>>

\* ------------------------------------------------------------------------
\* render_imagery.py: load_and_resample_goes
\* ------------------------------------------------------------------------

GoesIds == {"g19", "g18"}

\* Lines 143-164: the latest directory, the newest C13 file, the scene
GoesLoad(id) ==
    /\ pc = <<id, "find">>
    /\ \E found \in Findings :
          /\ fs' = [fs EXCEPT ![id] = found]
          /\ scene_calls' = IF found \in {"nodirs", "nofiles", "otherband"}
                                THEN scene_calls
                                ELSE scene_calls \cup {id}
          /\ CASE found = "nodirs" ->
                    Raise("ValueError: No valid directories found") /\ scn' = scn
               [] found \in {"nofiles", "otherband"} ->
                    Raise("ValueError: No C13 files found") /\ scn' = scn
               [] found = "unreadable" ->
                    Raise("scene loader: decode error") /\ scn' = scn
               [] OTHER ->
                    /\ scn' = [sat |-> id, kind |-> found]
                    /\ pc' = <<id, "resampleA">>
                    /\ error' = error
    /\ UNCHANGED <<dlVars, script, resolution,
                   W_full, H_full, cropVars, arrA, arrB, W_B,
                   arr_full, lon_mask, fieldVars, composite, arr_crop>>

\* Lines 167-181: the main window [-180, 180]
GoesResampleA(id) ==
    /\ pc = <<id, "resampleA">>
    /\ arrA' = Resample(scn, LON_MIN_FULL, LAT_MIN_FULL, LON_MAX_FULL, LAT_MAX_FULL,
                        W_full, H_full)
    /\ pc' = <<id, "resampleB">>
    /\ UNCHANGED <<dlVars, scene_calls, script, resolution,
                   W_full, H_full, cropVars, fs, error, scn, arrB,
                   W_B, arr_full, lon_mask, fieldVars, composite, arr_crop>>

\* Lines 184-203: the overflow window [lon_min_B, lon_max_B], W_B columns
GoesResampleB(id) ==
    /\ pc = <<id, "resampleB">>
    /\ W_B' = OverflowWidth(script, resolution)
    /\ arrB' = Resample(scn, lon_min_B, LAT_MIN_FULL, lon_max_B(script), LAT_MAX_FULL,
                        W_B', H_full)
    /\ pc' = <<id, "stitch">>
    /\ UNCHANGED <<dlVars, scene_calls, script, resolution,
                   W_full, H_full, cropVars, fs, error, scn, arrA,
                   arr_full, lon_mask, fieldVars, composite, arr_crop>>

\* The overflow columns put in front of the main ones instead of over
\* them: np.hstack([over, full]).
SpliceConcat(full, over, wb) == HStack(over, full)

\* full[:, 0:wb] = over
Splice(full, over, wb) ==
    LET LET_F(r, c) == IF c < SliceHi(wb, full.w) THEN over.d[r][c] ELSE full.d[r][c]
    IN  Arr(full.h, full.w, LET_F)

\* Stitch without the copy: arr_full = arrA; arr_full[:, 0:W_B] = arrB, so
\* that arrA is spliced too.
StitchInPlace(main, over, wb) ==
    [main |-> Splice(main, over, wb), full |-> Splice(main, over, wb)]

\* arr_full = arrA.copy(); arr_full[:, 0:W_B] = arrB
\* The result names both arrays: main is what arrA holds afterwards.
Stitch(main, over, wb) ==
    [main |-> main, full |-> Splice(main, over, wb)]

\* Lines 206-207
GoesStitch(id) ==
    /\ pc = <<id, "stitch">>
    /\ LET st == Stitch(arrA, arrB, W_B)
       IN  arrA' = st.main /\ arr_full' = st.full
    /\ pc' = <<id, "mask">>
    /\ UNCHANGED <<dlVars, scene_calls, script, resolution,
                   W_full, H_full, cropVars, fs, error, scn, arrB,
                   W_B, lon_mask, fieldVars, composite, arr_crop>>

\* Twice lon_vals[j] = LON_MIN_FULL + (j + 0.5) * resolution
LonVal2(j, res) == 2 * LON_MIN_FULL + (2 * j + 1) * res

\* The mask with the comparison of GOES-19 used for both satellites.
GoesKeepSameSide(id, res, w) ==
    {j \in 0..(w - 1) : LonVal2(j, res) >= 2 * GoesCutoff}

\* Lines 218-225: lon_mask_1d
GoesKeep(id, res, w) ==
    IF id = "g19"
    THEN {j \in 0..(w - 1) : LonVal2(j, res) >= 2 * GoesCutoff}
    ELSE {j \in 0..(w - 1) : LonVal2(j, res) <= 2 * GoesCutoff}

\* Lines 228-231
GoesMask(id) ==
    /\ pc = <<id, "mask">>
    /\ lon_mask' = [lon_mask EXCEPT ![id] = GoesKeep(id, resolution, W_full)]
    /\ arr_full' = MaskColumns(arr_full, GoesKeep(id, resolution, W_full))
    /\ pc' = <<id, "return">>
    /\ UNCHANGED <<dlVars, scene_calls, script, resolution,
                   W_full, H_full, cropVars, fs, error, scn, arrA,
                   arrB, W_B, fieldVars, composite, arr_crop>>

\* Lines 234-235 and 243, 245: the returned field; the locals go out of scope
GoesReturn(id) ==
    /\ pc = <<id, "return">>
    /\ IF id = "g19"
       THEN g19_arr' = Normalise(arr_full) /\ g18_arr' = g18_arr
       ELSE g18_arr' = Normalise(arr_full) /\ g19_arr' = g19_arr
    /\ scn' = NoScene /\ arrA' = NoArr /\ arrB' = NoArr /\ arr_full' = NoArr
    /\ W_B' = 0
    /\ pc' = IF id = "g19" THEN <<"g18", "find">> ELSE <<"main", "composite">>
    /\ UNCHANGED <<dlVars, scene_calls, script, resolution,
                   W_full, H_full, cropVars, fs, error, lon_mask,
                   h9_arr, composite, arr_crop>>

\* ------------------------------------------------------------------------
\* render_imagery.py: composite
\* ------------------------------------------------------------------------

\* The merge with Himawari-9 tried before GOES-19.
MergeH9First(g19, h9, g18) ==
    LET LET_F(r, c) ==
            IF IsFinite(h9.d[r][c]) THEN h9.d[r][c]
            ELSE IF IsFinite(g19.d[r][c]) THEN g19.d[r][c]
            ELSE g18.d[r][c]
    IN  Arr(g19.h, g19.w, LET_F)

\* The merge without its last fallback: np.where(isfinite(g19), g19, h9).
MergeNoFallback(g19, h9, g18) ==
    LET LET_F(r, c) ==
            IF IsFinite(g19.d[r][c]) THEN g19.d[r][c] ELSE h9.d[r][c]
    IN  Arr(g19.h, g19.w, LET_F)

\* np.where(isfinite(g19), g19, np.where(isfinite(h9), h9, g18))
Merge(g19, h9, g18) ==
    LET LET_F(r, c) ==
            IF IsFinite(g19.d[r][c]) THEN g19.d[r][c]
            ELSE IF IsFinite(h9.d[r][c]) THEN h9.d[r][c]
            ELSE g18.d[r][c]
    IN  Arr(g19.h, g19.w, LET_F)

\* Lines 251-256
Composite ==
    /\ pc = <<"main", "composite">>
    /\ composite' = Merge(g19_arr, h9_arr, g18_arr)
    /\ pc' = <<"main", "crop">>
    /\ UNCHANGED <<dlVars, scene_calls, script, resolution,
                   W_full, H_full, cropVars, fs, error, localVars,
                   fieldVars, arr_crop>>

\* ------------------------------------------------------------------------
\* render_imagery.py: crop
\* ------------------------------------------------------------------------

wrap_lon(lon) ==
    IF lon > 18000 THEN lon - 36000
    ELSE IF lon < -18000 THEN lon + 36000
    ELSE lon

\* The crop with the last column of the window left out (non-wrapping case).
CropArrayDropsLast(a, lon0, lon1, lat0, lat1, res) ==
    Slice2D(a, PyIntDiv(LAT_MAX_FULL - lat1, res), PyIntDiv(LAT_MAX_FULL - lat0, res),
            PyIntDiv(lon0 - LON_MIN_FULL, res), PyIntDiv(lon1 - LON_MIN_FULL, res) - 1)

\* The crop with inclusive end indices (non-wrapping case).
CropArrayInclusive(a, lon0, lon1, lat0, lat1, res) ==
    Slice2D(a, PyIntDiv(LAT_MAX_FULL - lat1, res), PyIntDiv(LAT_MAX_FULL - lat0, res) + 1,
            PyIntDiv(lon0 - LON_MIN_FULL, res), PyIntDiv(lon1 - LON_MIN_FULL, res) + 1)

\* Lines 275-298, with the latitudes already clamped
CropArray(a, lon0, lon1, lat0, lat1, res) ==
    LET row_start == PyIntDiv(LAT_MAX_FULL - lat1, res)
        row_end   == PyIntDiv(LAT_MAX_FULL - lat0, res)
    IN  IF lon0 >= -18000 /\ lon1 <= 18000
        THEN Slice2D(a, row_start, row_end,
                     PyIntDiv(lon0 - LON_MIN_FULL, res),
                     PyIntDiv(lon1 - LON_MIN_FULL, res))
        ELSE LET col1_start == PyIntDiv(lon0 - LON_MIN_FULL, res)
                 col1_end   == PyIntDiv(18000 - LON_MIN_FULL, res)
                 lon2_min   == wrap_lon(Max(lon0, 18000))
                 lon2_max   == wrap_lon(lon1)
                 col2_start == PyIntDiv(lon2_min - LON_MIN_FULL, res)
                 col2_end   == PyIntDiv(lon2_max - LON_MIN_FULL, res)
             IN  HStack(Slice2D(a, row_start, row_end, col1_start, col1_end),
                        Slice2D(a, row_start, row_end, col2_start, col2_end))

\* Lines 263-298
Crop ==
    /\ pc = <<"main", "crop">>
    /\ lat_min_crop' = Max(lat_min_crop, LAT_MIN_FULL)
    /\ lat_max_crop' = Min(lat_max_crop, LAT_MAX_FULL)
    /\ arr_crop' = CropArray(composite, lon_min_crop, lon_max_crop,
                             lat_min_crop', lat_max_crop', resolution)
    /\ pc' = <<"main", "done">>
    /\ UNCHANGED <<dlVars, scene_calls, script, resolution,
                   W_full, H_full, lon_min_crop, lon_max_crop,
                   fs, error, localVars, fieldVars, composite>>

\* ------------------------------------------------------------------------
\* render_h9_imagery.py
\* ------------------------------------------------------------------------

\* Lines 67-87
H9sLoad ==
    /\ pc = <<"h9s", "find">>
    /\ \E found \in Findings :
          /\ fs' = [fs EXCEPT !["h9"] = found]
          /\ scene_calls' = IF found \in {"nodirs"} THEN scene_calls
                                ELSE scene_calls \cup {"h9"}
          /\ CASE found = "nodirs" ->
                    Raise("ValueError: No valid directories found") /\ scn' = scn
               [] found = "nofiles" ->
                    Raise("scene loader: no files") /\ scn' = scn
               [] found = "otherband" ->
                    Raise("scene loader: unknown dataset") /\ scn' = scn
               [] found = "unreadable" ->
                    Raise("scene loader: decode error") /\ scn' = scn
               [] OTHER ->
                    /\ scn' = [sat |-> "h9", kind |-> found]
                    /\ pc' = <<"h9s", "resampleA">>
                    /\ error' = error
    /\ UNCHANGED <<dlVars, script, resolution,
                   W_full, H_full, cropVars, arrA, arrB, W_B,
                   arr_full, lon_mask, fieldVars, composite, arr_crop>>

\* Lines 93-104
H9sResampleA ==
    /\ pc = <<"h9s", "resampleA">>
    /\ arrA' = Resample(scn, LON_MIN_FULL, LAT_MIN_FULL, LON_MAX_FULL, LAT_MAX_FULL,
                        W_full, H_full)
    /\ pc' = <<"h9s", "resampleB">>
    /\ UNCHANGED <<dlVars, scene_calls, script, resolution,
                   W_full, H_full, cropVars, fs, error, scn, arrB,
                   W_B, arr_full, lon_mask, fieldVars, composite, arr_crop>>

\* Lines 111-130
H9sResampleB ==
    /\ pc = <<"h9s", "resampleB">>
    /\ W_B' = OverflowWidth(script, resolution)
    /\ arrB' = Resample(scn, lon_min_B, LAT_MIN_FULL, lon_max_B(script), LAT_MAX_FULL,
                        W_B', H_full)
    /\ pc' = <<"h9s", "stitch">>
    /\ UNCHANGED <<dlVars, scene_calls, script, resolution,
                   W_full, H_full, cropVars, fs, error, scn, arrA,
                   arr_full, lon_mask, fieldVars, composite, arr_crop>>

\* Lines 137-142: ir_final
H9sStitch ==
    /\ pc = <<"h9s", "stitch">>
    /\ LET st == Stitch(arrA, arrB, W_B)
       IN  arrA' = st.main /\ arr_full' = st.full
    /\ pc' = <<"main", "done">>
    /\ UNCHANGED <<dlVars, scene_calls, script, resolution,
                   W_full, H_full, cropVars, fs, error, scn, arrB,
                   W_B, lon_mask, fieldVars, composite, arr_crop>>

Next ==
    \/ ComputeGrid
    \/ HimawariLoad
    \/ HimawariResample
    \/ HimawariMask
    \/ HimawariReturn
    \/ \E id \in GoesIds : GoesLoad(id)
    \/ \E id \in GoesIds : GoesResampleA(id)
    \/ \E id \in GoesIds : GoesResampleB(id)
    \/ \E id \in GoesIds : GoesStitch(id)
    \/ \E id \in GoesIds : GoesMask(id)
    \/ \E id \in GoesIds : GoesReturn(id)
    \/ Composite
    \/ Crop
    \/ H9sLoad
    \/ H9sResampleA
    \/ H9sResampleB
    \/ H9sStitch

Spec == Init /\ [][Next]_vars

\* ------------------------------------------------------------------------
\* The grid arithmetic alone, at the resolutions the scripts configure and
\* at their neighbours: the dimensions, the overflow width and the
\* longitude masks, with no field carried.
\* ------------------------------------------------------------------------

InitGrid ==
    /\ script \in Scripts
    /\ resolution \in 1..GridResMax
    /\ lon_min_crop = LON_MIN_FULL /\ lon_max_crop = LON_MAX_FULL
    /\ lat_min_crop = LAT_MIN_FULL /\ lat_max_crop = LAT_MAX_FULL
    /\ InitCommon

\* render_imagery.py 70-71, render_h9_imagery.py 49-50
GridDims ==
    /\ pc = <<"main", "start">>
    /\ W_full' = GridWidth(resolution)
    /\ H_full' = GridHeight(resolution)
    /\ pc' = <<"grid", "overflow">>
    /\ UNCHANGED <<dlVars, scene_calls, script, resolution,
                   cropVars, fs, error, localVars, fieldVars,
                   composite, arr_crop>>

\* render_imagery.py 184-187, render_h9_imagery.py 111-117
GridOverflow ==
    /\ pc = <<"grid", "overflow">>
    /\ W_B' = OverflowWidth(script, resolution)
    /\ pc' = IF script = "render_imagery" THEN <<"grid", "masks">> ELSE <<"grid", "done">>
    /\ UNCHANGED <<dlVars, scene_calls, script, resolution,
                   W_full, H_full, cropVars, fs, error, scn, arrA,
                   arrB, arr_full, lon_mask, fieldVars, composite, arr_crop>>

\* render_imagery.py 119-120 and 218-225
GridMasks ==
    /\ pc = <<"grid", "masks">>
    /\ lon_mask' = [s \in Sats |-> IF s = "h9" THEN HimawariKeep
                                   ELSE GoesKeep(s, resolution, W_full)]
    /\ pc' = <<"grid", "done">>
    /\ UNCHANGED <<dlVars, scene_calls, script, resolution,
                   W_full, H_full, cropVars, fs, error, scn, arrA,
                   arrB, W_B, arr_full, fieldVars, composite, arr_crop>>

NextGrid ==
    \/ GridDims
    \/ GridOverflow
    \/ GridMasks

SpecGrid == InitGrid /\ [][NextGrid]_vars

\* ------------------------------------------------------------------------
\* The merge alone, on small fields drawn freely: three normalised fields
\* of one row, each cell finite or NaN.
\* ------------------------------------------------------------------------

\* Columns of the drawn fields.
MergeW == 3

MergeValues == {NaN, 250, 300}

MergeFields ==
    {[h |-> 1, w |-> MergeW, d |-> [r \in {0} |-> row]] :
        row \in [0..(MergeW - 1) -> MergeValues]}

InitMerge ==
    /\ script = "render_imagery"
    /\ resolution = ConfiguredResolution("render_imagery")
    /\ lon_min_crop = LON_MIN_FULL /\ lon_max_crop = LON_MAX_FULL
    /\ lat_min_crop = LAT_MIN_FULL /\ lat_max_crop = LAT_MAX_FULL
    /\ W_full = MergeW /\ H_full = 1
    /\ fs = [s \in Sats |-> "unread"]
    /\ error = "none"
    /\ scene_calls = {}
    /\ scn = NoScene
    /\ arrA = NoArr /\ arrB = NoArr /\ arr_full = NoArr
    /\ W_B = 0
    /\ lon_mask = [s \in Sats |-> {}]
    /\ h9_arr \in MergeFields /\ g19_arr \in MergeFields /\ g18_arr \in MergeFields
    /\ composite = NoArr
    /\ arr_crop = NoArr
    /\ pc = <<"merge", "start">>
    /\ InitNoDownload

\* render_imagery.py 251-256 applied to the drawn fields
MergeDrawn ==
    /\ pc = <<"merge", "start">>
    /\ composite' = Merge(g19_arr, h9_arr, g18_arr)
    /\ pc' = <<"merge", "done">>
    /\ UNCHANGED <<dlVars, scene_calls, script, resolution,
                   W_full, H_full, cropVars, fs, error, localVars,
                   fieldVars, arr_crop>>

NextMerge == MergeDrawn

SpecMerge == InitMerge /\ [][NextMerge]_vars

\* ------------------------------------------------------------------------
\* The downloaders (grab_raw_*.py) and the directory a loader then selects
\* ------------------------------------------------------------------------

\* Hours a search-back downloader looks back (the scripts configure 6 or 24).
HoursBack == 3

days_back == 2

\* goes-19 and goes-18 are the two calls of grab_raw_goes-18-19_data.py.
Downloaders == {"goes-19", "goes-18", "goes19", "h9", "gmgsi", "viirs"}

\* What a listing request for one slot can give: a client error, a response
\* without Contents, objects none of which matches the filter, or objects
\* of which some match.
Listings == {"client_error", "no_contents", "no_match", "match"}

\* The clock readings tried: 00:25 and 01:10 UTC on 2026-01-01.
NowChoices == {25, 70}

\* Minutes between two slots
SlotStep(d) == IF d = "h9" THEN 10 ELSE IF d = "viirs" THEN 1440 ELSE 60

\* The time of the newest slot: now with the minutes cleared (hourly
\* downloaders), rounded down to ten minutes (Himawari-9), or as it is.
BaseTime(d, t) ==
    IF d = "viirs" THEN t
    ELSE IF d = "h9" THEN t - (t % 10)
    ELSE t - (t % 60)

max_attempts(d) ==
    IF d = "h9" THEN HoursBack * 6
    ELSE IF d = "viirs" THEN days_back
    ELSE HoursBack

\* ts of loop index i
SlotTime(d, t, i) == BaseTime(d, t) - i * SlotStep(d)

\* datetime fields of a time given in minutes from 2026-01-01 00:00 UTC, for
\* the last days of 2025 and the first of 2026.
DayNo(t) == t \div 1440
Year(t) == IF DayNo(t) >= 0 THEN 2026 ELSE 2025
Month(t) == IF DayNo(t) >= 0 THEN 1 ELSE 12
DayOfMonth(t) == IF DayNo(t) >= 0 THEN DayNo(t) + 1 ELSE 32 + DayNo(t)
DayOfYear(t) == IF DayNo(t) >= 0 THEN DayNo(t) + 1 ELSE 366 + DayNo(t)
Hour(t) == (t % 1440) \div 60
Minute(t) == t % 60

DigitChars == <<"0", "1", "2", "3", "4", "5", "6", "7", "8", "9">>

RECURSIVE Pow10(_)
Pow10(k) == IF k = 0 THEN 1 ELSE 10 * Pow10(k - 1)

\* strftime of a zero-padded field: n in width decimal digits
Pad(n, width) ==
    [i \in 1..width |-> DigitChars[((n \div Pow10(width - i)) % 10) + 1]]

\* f'{year}{doy}_{hour}00'
GoesDirName(t) ==
    Pad(Year(t), 4) \o Pad(DayOfYear(t), 3) \o <<"_">> \o Pad(Hour(t), 2) \o <<"0", "0">>

\* f'{yyyy}{mm}{dd}_{hhmm}'
H9DirName(t) ==
    Pad(Year(t), 4) \o Pad(Month(t), 2) \o Pad(DayOfMonth(t), 2) \o <<"_">>
        \o Pad(Hour(t), 2) \o Pad(Minute(t), 2)

\* f'{year}{month}{day}_{hour}00'
GmgsiDirName(t) ==
    Pad(Year(t), 4) \o Pad(Month(t), 2) \o Pad(DayOfMonth(t), 2) \o <<"_">>
        \o Pad(Hour(t), 2) \o <<"0", "0">>

\* f'{year}{month}{day}'
ViirsDirName(t) == Pad(Year(t), 4) \o Pad(Month(t), 2) \o Pad(DayOfMonth(t), 2)

\* The directory a downloader writes into
RawDir(d) ==
    CASE d = "goes-19" -> "goes-19_raw"
      [] d = "goes-18" -> "goes-18_raw"
      [] d = "goes19"  -> "goes19_raw"
      [] d = "h9"      -> "himawari9_raw"
      [] d = "gmgsi"   -> "gmgsi_raw"
      [] d = "viirs"   -> "noaa-20_viirs_raw"

DirName(d, t) ==
    CASE d \in {"goes-19", "goes-18", "goes19"} -> GoesDirName(t)
      [] d = "h9"    -> H9DirName(t)
      [] d = "gmgsi" -> GmgsiDirName(t)
      [] d = "viirs" -> ViirsDirName(t)

\* The downloaders whose directory render_imagery.py reads (lines 241-245)
Rendered == {"h9", "goes-19", "goes-18"}

\* Entries that are no timestamp directory: one the name filters reject and,
\* per loader, one of the length and underscore position the filter accepts.
StrayEntry == <<".", "D", "S", "_", "S", "t", "o", "r", "e">>

StrayGoesEntry == <<"u", "n", "k", "n", "o", "w", "n", "_", "d", "a", "t", "a">>

StrayH9Entry == <<"p", "r", "e", "v", "i", "o", "u", "s", "_", "r", "u", "n", "s">>

\* What the raw directory can hold before the downloader runs: directories
\* of earlier runs (of the slot before the newest, and of the slot just
\* older than the search window) and stray entries.
EarlierEntries(d, t) ==
    { DirName(d, SlotTime(d, t, 1)),
      DirName(d, SlotTime(d, t, max_attempts(d))),
      StrayEntry,
      IF d = "h9" THEN StrayH9Entry ELSE StrayGoesEntry }

InitDownload ==
    /\ script = "render_imagery"
    /\ resolution = ConfiguredResolution("render_imagery")
    /\ lon_min_crop = LON_MIN_FULL /\ lon_max_crop = LON_MAX_FULL
    /\ lat_min_crop = LAT_MIN_FULL /\ lat_max_crop = LAT_MAX_FULL
    /\ InitNoRender
    /\ pc = <<"dl", "loop">>
    /\ dl \in Downloaders
    /\ now \in NowChoices
    /\ dl_i = 0
    /\ visited = << >> /\ listing = "none"
    /\ downloaded = {}
    /\ dl_ret = NoReturn
    /\ \E present \in (IF dl \in Rendered THEN SUBSET EarlierEntries(dl, now) ELSE {{}}) :
          raw_dirs = {<<RawDir(dl), e>> : e \in present}
    /\ latest_dir = << >>

renderVars ==
    <<script, resolution, W_full, H_full, cropVars, fs, scene_calls, localVars,
      fieldVars, composite, arr_crop>>

\* One listing request: s3.list_objects_v2 for the slot of loop index dl_i
ListSlot(d, got) ==
    /\ dl = d
    /\ pc = <<"dl", "loop">>
    /\ dl_i < max_attempts(d)
    /\ visited' = Append(visited, dl_i)
    /\ listing' = got

\* continue
NextSlot ==
    /\ dl_i' = dl_i + 1
    /\ pc' = pc
    /\ UNCHANGED <<downloaded, dl_ret, raw_dirs, error>>

\* os.makedirs(local_dir, exist_ok=True)
MakeDir(d, t) == raw_dirs' = raw_dirs \cup {<<RawDir(d), DirName(d, t)>>}

\* makedirs, download_file, return local_dir
FetchAndReturn(d) ==
    /\ MakeDir(d, SlotTime(d, now, dl_i))
    /\ downloaded' = downloaded \cup {dl_i}
    /\ dl_ret' = [kind |-> "dir", slot |-> dl_i,
                  path |-> <<RawDir(d), DirName(d, SlotTime(d, now, dl_i))>>]
    /\ pc' = <<"dl", "returned">>
    /\ UNCHANGED <<dl_i, error>>

\* grab_raw_goes-18-19_data.py 49-83, for either satellite
GrabGoes(sat) ==
    /\ \E got \in Listings :
          /\ ListSlot(sat, got)
          /\ IF got = "match" THEN FetchAndReturn(sat) ELSE NextSlot
    /\ UNCHANGED <<renderVars, dl, now, latest_dir>>

\* grab_raw_goes19_data.py 23-55: sorted(files)[-1] comes before the test
\* of what it gave, and raises on an empty list.
GrabGoes19 ==
    /\ \E got \in Listings :
          /\ ListSlot("goes19", got)
          /\ CASE got = "match" -> FetchAndReturn("goes19")
               [] got = "no_match" ->
                    /\ Raise("IndexError: list index out of range")
                    /\ UNCHANGED <<dl_i, downloaded, dl_ret, raw_dirs>>
               [] OTHER -> NextSlot
    /\ UNCHANGED <<renderVars, dl, now, latest_dir>>

\* grab_raw_h9_data.py 30-71
GrabH9 ==
    /\ \E got \in Listings :
          /\ ListSlot("h9", got)
          /\ IF got = "match" THEN FetchAndReturn("h9") ELSE NextSlot
    /\ UNCHANGED <<renderVars, dl, now, latest_dir>>

\* grab_raw_gmgsi_data.py 24-59
GrabGmgsi ==
    /\ \E got \in Listings :
          /\ ListSlot("gmgsi", got)
          /\ IF got = "match" THEN FetchAndReturn("gmgsi") ELSE NextSlot
    /\ UNCHANGED <<renderVars, dl, now, latest_dir>>

\* grab_raw_jpss_data.py 21-48: a day with Contents gets its directory and
\* its files (keys with an empty basename are passed over), and the loop
\* goes on to the day before; nothing is returned.
GrabViirs ==
    /\ \E got \in Listings :
          /\ ListSlot("viirs", got)
          /\ CASE got = "match" ->
                    /\ MakeDir("viirs", SlotTime("viirs", now, dl_i))
                    /\ downloaded' = downloaded \cup {dl_i}
               [] got = "no_match" ->
                    /\ MakeDir("viirs", SlotTime("viirs", now, dl_i))
                    /\ downloaded' = downloaded
               [] OTHER ->
                    UNCHANGED <<raw_dirs, downloaded>>
          /\ dl_i' = dl_i + 1
          /\ pc' = pc
          /\ UNCHANGED <<dl_ret, error>>
    /\ UNCHANGED <<renderVars, dl, now, latest_dir>>

\* The loop ran out of slots: return None (a function that falls off its
\* end, as auto_download_latest_viirs does, returns None too).
SearchExhausted ==
    /\ pc = <<"dl", "loop">>
    /\ dl_i = max_attempts(dl)
    /\ dl_ret' = [kind |-> "None", slot |-> 0, path |-> << >>]
    /\ pc' = <<"dl", "returned">>
    /\ UNCHANGED <<renderVars, dl, now, dl_i, visited, listing, downloaded,
                   raw_dirs, latest_dir, error>>

\* The name filters of the loaders; indices here count from 1.

\* The GOES loader with the filter of the Himawari-9 loader.
H9DirFilterForGoes(d) == Len(d) = 13 /\ d[9] = "_"

\* len(d) == 12 and d[7] == '_'
GoesDirFilter(d) == Len(d) = 12 /\ d[8] = "_"

\* len(d) == 13 and d[8] == '_'
H9DirFilter(d) == Len(d) = 13 /\ d[9] = "_"

DigitVal(ch) ==
    IF \E i \in 1..10 : DigitChars[i] = ch
    THEN (CHOOSE i \in 1..10 : DigitChars[i] = ch) - 1
    ELSE -1

\* The number a run of decimal digits denotes, -1 if a character is none
RECURSIVE Num(_)
Num(digits) ==
    IF digits = << >> THEN 0
    ELSE LET init == Num(SubSeq(digits, 1, Len(digits) - 1))
             last == DigitVal(digits[Len(digits)])
         IN  IF init < 0 \/ last < 0 THEN -1 ELSE 10 * init + last

\* datetime.strptime(d, "%Y%j_%H%M") on a name of twelve characters: the
\* fields read, and whether the name matches the format.
ParseGoes(d) ==
    LET y == Num(SubSeq(d, 1, 4))
        j == Num(SubSeq(d, 5, 7))
        hh == Num(SubSeq(d, 9, 10))
        mi == Num(SubSeq(d, 11, 12))
    IN  [ok |-> /\ y >= 1 /\ j \in 1..366 /\ d[8] = "_"
                /\ hh \in 0..23 /\ mi \in 0..59,
         ts |-> <<y, j, hh, mi>>]

\* datetime.strptime(d, "%Y%m%d_%H%M") on a name of thirteen characters
ParseH9(d) ==
    LET y == Num(SubSeq(d, 1, 4))
        mo == Num(SubSeq(d, 5, 6))
        dd == Num(SubSeq(d, 7, 8))
        hh == Num(SubSeq(d, 10, 11))
        mi == Num(SubSeq(d, 12, 13))
    IN  [ok |-> /\ y >= 1 /\ mo \in 1..12 /\ dd \in 1..31 /\ d[9] = "_"
                /\ hh \in 0..23 /\ mi \in 0..59,
         ts |-> <<y, mo * 100 + dd, hh, mi>>]

\* Comparison of two parsed datetimes, field by field
RECURSIVE Earlier(_, _)
Earlier(a, b) ==
    IF a = << >> THEN FALSE
    ELSE IF Head(a) # Head(b) THEN Head(a) < Head(b)
    ELSE Earlier(Tail(a), Tail(b))

DirFilter(d, e) == IF d = "h9" THEN H9DirFilter(e) ELSE GoesDirFilter(e)

ParseDir(d, e) == IF d = "h9" THEN ParseH9(e) ELSE ParseGoes(e)

\* dirs: the entries of the base directory that pass the name filter
Dirs(d) == {e \in {p[2] : p \in {q \in raw_dirs : q[1] = RawDir(d)}} : DirFilter(d, e)}

\* render_imagery.py 85-92 (Himawari-9) and 143-149 (GOES): the loader of
\* the downloader's satellite selects its latest directory.
FindLatest ==
    /\ pc = <<"dl", "returned">>
    /\ dl \in Rendered
    /\ IF Dirs(dl) = {}
       THEN Raise("ValueError: No valid directories found") /\ latest_dir' = latest_dir
       ELSE IF \E e \in Dirs(dl) : ~ParseDir(dl, e).ok
       THEN Raise("ValueError: time data does not match format")
            /\ latest_dir' = latest_dir
       ELSE /\ latest_dir' = CHOOSE e \in Dirs(dl) :
                  \A f \in Dirs(dl) : ~Earlier(ParseDir(dl, e).ts, ParseDir(dl, f).ts)
            /\ pc' = <<"dl", "found">>
            /\ error' = error
    /\ UNCHANGED <<renderVars, dl, now, dl_i, visited, listing, downloaded, dl_ret,
                   raw_dirs>>

NextDownload ==
    \/ \E sat \in {"goes-19", "goes-18"} : GrabGoes(sat)
    \/ GrabGoes19
    \/ GrabH9
    \/ GrabGmgsi
    \/ GrabViirs
    \/ SearchExhausted
    \/ FindLatest

SpecDownload == InitDownload /\ [][NextDownload]_vars

\* ------------------------------------------------------------------------
\* Vocabulary of the claims
\* ------------------------------------------------------------------------

Rows == 0..(H_full - 1)
Cols == 0..(W_full - 1)

\* The composite exists: the three loaders returned and the merge ran.
Composited ==
    script = "render_imagery" /\ pc \in {<<"main", "crop">>, <<"main", "done">>}

\* The crop step ran.
Cropped == script = "render_imagery" /\ pc = <<"main", "done">>

\* A loader (or render_h9_imagery) has just stitched: arrA, arrB and the
\* stitched arr_full are all in scope.
Stitched ==
    \/ pc[1] \in GoesIds /\ pc[2] = "mask"
    \/ script = "render_h9_imagery" /\ pc = <<"main", "done">>

\* The main-window resample of a scene.
MainWindow(s) ==
    Resample(s, LON_MIN_FULL, LAT_MIN_FULL, LON_MAX_FULL, LAT_MAX_FULL, W_full, H_full)

ColLon(c) == AreaLon(LON_MIN_FULL, LON_MAX_FULL, W_full, c)

\* The column whose cell holds longitude lon.
ColOf(lon) == (lon - LON_MIN_FULL) \div resolution
RowOf(lat) == (LAT_MAX_FULL - lat) \div resolution

\* Ownership zones as section 4.3 of the specification computes them: the
\* circular midpoints of adjacent sub-satellite longitudes, satellite k
\* owning [ZoneWest[k], ZoneEast[k]).
ZoneWest == [h9 |-> 3275, g18 |-> -17860, g19 |-> -10605]
ZoneEast == [h9 |-> -17860, g18 |-> -10605, g19 |-> 3275]

InZone(s, lon) == LonE(lon - ZoneWest[s]) < LonE(ZoneEast[s] - ZoneWest[s])

Owner(lon) == CHOOSE s \in Sats : InZone(s, lon)

\* ------------------------------------------------------------------------
\* C1
\* ------------------------------------------------------------------------

\* C1: at every grid cell the composite holds the first finite value in the
\* order GOES-19, Himawari-9, GOES-18, and it is no-data (NaN) exactly
\* when all three fields are no-data at that cell.
C1_CompositeFirstFinite ==
    Composited =>
        /\ composite.h = H_full /\ composite.w = W_full
        /\ \A r \in Rows, c \in Cols :
              LET a == g19_arr.d[r][c]
                  b == h9_arr.d[r][c]
                  d == g18_arr.d[r][c]
                  x == composite.d[r][c]
              IN  /\ IsFinite(a) => x = a
                  /\ ~IsFinite(a) /\ IsFinite(b) => x = b
                  /\ ~IsFinite(a) /\ ~IsFinite(b) /\ IsFinite(d) => x = d
                  /\ (x = NaN) <=> (a = NaN /\ b = NaN /\ d = NaN)

\* A composite in which every case occurs: a cell where GOES-19 wins over a
\* different Himawari-9 value, one filled from Himawari-9, one filled from
\* GOES-18 alone, and one with no data at all.
C1_Witness ==
    /\ Composited
    /\ \E r \in Rows, c \in Cols :
          /\ IsFinite(g19_arr.d[r][c]) /\ IsFinite(h9_arr.d[r][c])
          /\ g19_arr.d[r][c] # h9_arr.d[r][c]
          /\ composite.d[r][c] = g19_arr.d[r][c]
    /\ \E r \in Rows, c \in Cols :
          /\ ~IsFinite(g19_arr.d[r][c]) /\ IsFinite(h9_arr.d[r][c])
          /\ composite.d[r][c] = h9_arr.d[r][c]
    /\ \E r \in Rows, c \in Cols :
          /\ ~IsFinite(g19_arr.d[r][c]) /\ ~IsFinite(h9_arr.d[r][c])
          /\ IsFinite(g18_arr.d[r][c])
          /\ composite.d[r][c] = g18_arr.d[r][c]
    /\ \E r \in Rows, c \in Cols :
          /\ g19_arr.d[r][c] = NaN /\ h9_arr.d[r][c] = NaN /\ g18_arr.d[r][c] = NaN
          /\ composite.d[r][c] = NaN

\* ------------------------------------------------------------------------
\* C2
\* ------------------------------------------------------------------------

\* C2: the longitude masks of the three loaders partition the grid columns:
\* every column is kept for exactly one satellite, and each satellite keeps
\* the column of its own sub-satellite longitude.
C2_MasksPartitionColumns ==
    (script = "render_imagery" /\ pc = <<"main", "composite">>) =>
        /\ \A j \in Cols : Cardinality({s \in Sats : j \in lon_mask[s]}) = 1
        /\ \A s \in Sats : ColOf(SubLon[s]) \in lon_mask[s]

\* ------------------------------------------------------------------------
\* C3
\* ------------------------------------------------------------------------

\* C3: at the configured resolution each satellite's mask keeps the columns
\* of its midpoint zone: the boundaries are about -178.6, -106.05 and 32.75
\* degrees.  "About" is read as one degree: a column more than one degree
\* inside the zone is kept, one more than one degree outside it is masked.
C3_BoundariesAreMidpoints ==
    (script = "render_imagery" /\ pc = <<"grid", "done">>
        /\ resolution = ConfiguredResolution(script)) =>
        \A s \in Sats, j \in Cols :
            LET lon == LonVal2(j, resolution) \div 2
                inside  == \A e \in {-100, 0, 100} : InZone(s, lon + e)
                outside == \A e \in {-100, 0, 100} : ~InZone(s, lon + e)
            IN  /\ inside => j \in lon_mask[s]
                /\ outside => j \notin lon_mask[s]

\* ------------------------------------------------------------------------
\* C4
\* ------------------------------------------------------------------------

\* C4: when all three scenes are valid everywhere, every composite cell
\* holds the value of the satellite whose ownership zone contains the
\* cell's column.
C4_OwnerWins ==
    (Composited /\ \A s \in Sats : fs[s] = "full") =>
        \A r \in Rows, c \in Cols :
            composite.d[r][c] =
                MainWindow([sat |-> Owner(ColLon(c)), kind |-> "full"]).d[r][c]

\* ------------------------------------------------------------------------
\* C5
\* ------------------------------------------------------------------------

\* C5: the stitched field has the overflow field in columns 0..W_B-1 and
\* the main-window field in every other column, the main-window array is
\* still the main-window resample (the splice went to a copy), and splicing
\* the same overflow field again changes nothing.
C5_StitchIsColumnOverwrite ==
    Stitched =>
        /\ arr_full.h = H_full /\ arr_full.w = W_full
        /\ \A r \in Rows, c \in Cols :
              arr_full.d[r][c] = IF c < W_B THEN arrB.d[r][c] ELSE arrA.d[r][c]
        /\ arrA = MainWindow(scn)
        /\ Stitch(arr_full, arrB, W_B).full = arr_full

\* A stitch that changed something: the overflow field differs from the
\* main-window field in a column it overwrote.
C5_Witness ==
    /\ Stitched
    /\ W_B > 0
    /\ \E r \in Rows, c \in 0..(W_B - 1) :
          /\ IsFinite(arrB.d[r][c])
          /\ arrB.d[r][c] # arrA.d[r][c]
          /\ arr_full.d[r][c] = arrB.d[r][c]

\* ------------------------------------------------------------------------
\* C6
\* ------------------------------------------------------------------------

\* C6: at the configured resolution the overflow window has the main
\* grid's degrees per column: overflow extent / W_B = 360 / W_full.
C6_OverflowSameScale ==
    (pc = <<"grid", "done">> /\ resolution = ConfiguredResolution(script)) =>
        (lon_max_B(script) - lon_min_B) * W_full = (LON_MAX_FULL - LON_MIN_FULL) * W_B

\* ------------------------------------------------------------------------
\* C7
\* ------------------------------------------------------------------------

FullRequest ==
    /\ lon_min_crop = LON_MIN_FULL /\ lon_max_crop = LON_MAX_FULL
    /\ lat_min_crop = LAT_MIN_FULL /\ lat_max_crop = LAT_MAX_FULL

\* C7: cropping with the full window returns the composite unchanged, with
\* shape (H_full, W_full).
C7_FullCropIsIdentity ==
    (Cropped /\ FullRequest) =>
        /\ arr_crop.h = H_full /\ arr_crop.w = W_full
        /\ arr_crop = composite

\* A full-window crop of a composite that holds data and gaps.
C7_Witness ==
    /\ Cropped /\ FullRequest
    /\ \E r \in Rows, c \in Cols : IsFinite(arr_crop.d[r][c])
    /\ \E r \in Rows, c \in Cols : arr_crop.d[r][c] = NaN

\* ------------------------------------------------------------------------
\* C8
\* ------------------------------------------------------------------------

WrapRequest ==
    \/ lon_min_crop > lon_max_crop
    \/ lon_min_crop < LON_MIN_FULL
    \/ lon_max_crop > LON_MAX_FULL

\* C8: a crop whose longitude window crosses the antimeridian is the
\* columns of [lon_min, 180] followed by those of [-180, wrap(lon_max)].
C8_WrapCropIsBothParts ==
    (Cropped /\ WrapRequest) =>
        arr_crop =
            HStack(Slice2D(composite, RowOf(lat_max_crop), RowOf(lat_min_crop),
                           ColOf(wrap_lon(lon_min_crop)), W_full),
                   Slice2D(composite, RowOf(lat_max_crop), RowOf(lat_min_crop),
                           0, ColOf(wrap_lon(lon_max_crop))))

\* ------------------------------------------------------------------------
\* C9
\* ------------------------------------------------------------------------

InsideFull ==
    /\ LON_MIN_FULL <= lon_min_crop /\ lon_max_crop <= LON_MAX_FULL
    /\ LAT_MIN_FULL <= lat_min_crop /\ lat_max_crop <= LAT_MAX_FULL

\* C9: a crop request of zero width (or zero height) inside the full bounds
\* yields an array of zero columns (or zero rows), and the crop step raises
\* nothing.
C9_DegenerateCropIsEmpty ==
    (Cropped /\ InsideFull) =>
        /\ lon_min_crop = lon_max_crop => arr_crop.w = 0 /\ arr_crop.d = [r \in 0..(arr_crop.h - 1) |-> << >>]
        /\ lat_min_crop = lat_max_crop => arr_crop.h = 0 /\ arr_crop.d = << >>
        /\ (lon_min_crop = lon_max_crop \/ lat_min_crop = lat_max_crop) => error = "none"

\* Both degenerate requests were cropped from a composite that holds data.
C9_Witness ==
    /\ Cropped /\ InsideFull
    /\ lon_min_crop = lon_max_crop \/ lat_min_crop = lat_max_crop
    /\ arr_crop.w = 0 \/ arr_crop.h = 0
    /\ \E r \in Rows, c \in Cols : IsFinite(composite.d[r][c])

\* ------------------------------------------------------------------------
\* C10
\* ------------------------------------------------------------------------

FieldOf(s) == CASE s = "h9" -> h9_arr [] s = "g19" -> g19_arr [] OTHER -> g18_arr

\* C10: when loading one satellite fails the script goes on: that
\* satellite's field is all no-data, of shape (H_full, W_full).
C10_FailureDoesNotAbort ==
    script = "render_imagery" =>
        \A s \in Sats :
            fs[s] \in {"nodirs", "nofiles", "unreadable"} =>
                /\ error = "none"
                /\ pc # <<"main", "aborted">>
                /\ FieldOf(s).h = H_full /\ FieldOf(s).w = W_full
                /\ \A r \in Rows, c \in Cols : FieldOf(s).d[r][c] = NaN

\* ------------------------------------------------------------------------
\* C11
\* ------------------------------------------------------------------------

\* The errors a loader raises itself.
LoaderErrors ==
    {"ValueError: No valid directories found", "ValueError: No C13 files found"}

\* The empty-input findings: no timestamp directory, or a latest directory
\* with no data file of the requested band.
EmptyInputs == {"nodirs", "nofiles", "otherband"}

\* C11: a loader that finds no valid timestamp directory, or a latest
\* directory without a data file of the requested band, reports it as its
\* own error, and has not called the scene constructor; this for the
\* Himawari-9 loader as for the GOES loader.
C11_EmptyInputRaisesBeforeScene ==
    script = "render_imagery" =>
        \A s \in Sats :
            fs[s] \in EmptyInputs => error \in LoaderErrors /\ s \notin scene_calls

\* ------------------------------------------------------------------------
\* C12
\* ------------------------------------------------------------------------

\* The three fields in the priority order of the merge.
InPriority == <<g19_arr, h9_arr, g18_arr>>

Orders == {p \in [1..3 -> 1..3] : \A i, j \in 1..3 : i # j => p[i] # p[j]}

\* At every cell at most one field holds data.
DisjointCoverage ==
    \A r \in Rows, c \in Cols :
        Cardinality({i \in 1..3 : IsFinite(InPriority[i].d[r][c])}) <= 1

\* The value of the one field that holds data at the cell, else NaN.
UnionAt(r, c) ==
    IF \E i \in 1..3 : IsFinite(InPriority[i].d[r][c])
    THEN InPriority[CHOOSE i \in 1..3 : IsFinite(InPriority[i].d[r][c])].d[r][c]
    ELSE NaN

NoGaps(a) == \A r \in Rows, c \in Cols : IsFinite(a.d[r][c])

\* C12: when the three fields cover pairwise disjoint sets of cells the
\* composite is their union and is the same for every order in which the
\* fields are given to the merge; when one field without no-data cells is
\* given for all three satellites the composite is that field.
C12_MergeOfDisjointIsUnion ==
    pc = <<"merge", "done">> =>
        /\ DisjointCoverage =>
              /\ \A r \in Rows, c \in Cols : composite.d[r][c] = UnionAt(r, c)
              /\ \A p \in Orders :
                    Merge(InPriority[p[1]], InPriority[p[2]], InPriority[p[3]])
                        = composite
        /\ (g19_arr = h9_arr /\ h9_arr = g18_arr /\ NoGaps(g19_arr)) =>
              composite = g19_arr

\* Three disjoint fields, each holding data somewhere, were merged, and the
\* cell GOES-18 covers went into the composite.
C12_Witness ==
    /\ pc = <<"merge", "done">>
    /\ DisjointCoverage
    /\ \A i \in 1..3 : \E c \in Cols : IsFinite(InPriority[i].d[0][c])
    /\ \E c \in Cols : IsFinite(g18_arr.d[0][c]) /\ composite.d[0][c] = g18_arr.d[0][c]

\* ------------------------------------------------------------------------
\* C13
\* ------------------------------------------------------------------------

\* Python's round(a / b) for positive a and b: to the nearest whole number,
\* a half to the even one.
RoundDiv(a, b) ==
    LET q == a \div b
        r == a % b
    IN  IF 2 * r < b THEN q
        ELSE IF 2 * r > b THEN q + 1
        ELSE IF q % 2 = 0 THEN q ELSE q + 1

\* C13: at the resolution a script configures, the grid is
\* round(extent / resolution) cells wide and high, also when the resolution
\* does not divide the extent (0.07), and width * resolution is within one
\* pixel of the extent.
C13_DimensionsAreRounded ==
    (pc # <<"main", "start">> /\ resolution = ConfiguredResolution(script)) =>
        /\ W_full = RoundDiv(LON_MAX_FULL - LON_MIN_FULL, resolution)
        /\ H_full = RoundDiv(LAT_MAX_FULL - LAT_MIN_FULL, resolution)
        /\ Abs(W_full * resolution - (LON_MAX_FULL - LON_MIN_FULL)) < resolution
        /\ Abs(H_full * resolution - (LAT_MAX_FULL - LAT_MIN_FULL)) < resolution

\* ------------------------------------------------------------------------
\* C14
\* ------------------------------------------------------------------------

\* The overflow-window resample of a scene.
OverflowWindow(s) ==
    Resample(s, lon_min_B, LAT_MIN_FULL, lon_max_B(script), LAT_MAX_FULL,
             OverflowWidth(script, resolution), H_full)

\* C14: the Himawari-9 loader of render_imagery, like the GOES loader,
\* resamples a second time over the overflow window and puts the result
\* into the leftmost overflow columns of its field.
C14_HimawariStitchesOverflow ==
    (script = "render_imagery" /\ pc = <<"h9", "return">>) =>
        \A r \in Rows, c \in Cols :
            c < OverflowWidth(script, resolution) =>
                arrA.d[r][c] = OverflowWindow(scn).d[r][c]

\* ------------------------------------------------------------------------
\* C15
\* ------------------------------------------------------------------------

\* The scene a loader read, while and after the loader runs.
SceneOf(s) == [sat |-> s, kind |-> fs[s]]

\* The stitched array of a GOES loader, before the cutoff.
StitchedOf(id) ==
    Splice(MainWindow(SceneOf(id)), OverflowWindow(SceneOf(id)),
           OverflowWidth(script, resolution))

\* Twice the centre longitude of column c of the full grid.
CentreTwice(c) == 2 * LON_MIN_FULL + (2 * c + 1) * resolution

\* The columns the cutoff leaves to a GOES satellite: centre at or east of
\* 110 W for GOES-19, at or west of it for GOES-18.
OnOwnSide(id, c) ==
    IF id = "g19" THEN CentreTwice(c) >= 2 * GoesCutoff
    ELSE CentreTwice(c) <= 2 * GoesCutoff

\* The columns the mask keeps on the grid of the configured resolution.
ConfiguredKeep(id) ==
    GoesKeep(id, ConfiguredResolution("render_imagery"),
             GridWidth(ConfiguredResolution("render_imagery")))

\* C15, as stated: in the field the GOES loader returns, every cell of a
\* column beyond the cutoff is no-data and every other cell keeps its
\* stitched value; at the configured resolution no column is kept by both
\* satellites.
C15_CutoffKeepsStitchedValue ==
    /\ \A id \in GoesIds :
          FieldOf(id) # NoArr =>
              LET stitched == StitchedOf(id)
              IN  \A r \in Rows, c \in Cols :
                      FieldOf(id).d[r][c] =
                          IF OnOwnSide(id, c) THEN stitched.d[r][c] ELSE NaN
    /\ pc = <<"g18", "return">> => ConfiguredKeep("g19") \cap ConfiguredKeep("g18") = {}

\* C15, amended: in the field the GOES loader returns, every cell of a
\* column beyond the cutoff is no-data, and every other cell keeps its
\* stitched value where that is finite and is no-data where it is not; at
\* the configured resolution no column is kept by both satellites.
C15_CutoffKeepsFiniteStitchedValue ==
    /\ \A id \in GoesIds :
          FieldOf(id) # NoArr =>
              LET stitched == StitchedOf(id)
              IN  \A r \in Rows, c \in Cols :
                      FieldOf(id).d[r][c] =
                          IF OnOwnSide(id, c) /\ IsFinite(stitched.d[r][c])
                          THEN stitched.d[r][c]
                          ELSE NaN
    /\ pc = <<"g18", "return">> => ConfiguredKeep("g19") \cap ConfiguredKeep("g18") = {}

\* Both GOES loaders returned; in each field the cutoff removed a cell that
\* held data, a kept cell has its stitched value, and a kept cell whose
\* stitched value was infinite is no-data.
C15_Witness ==
    /\ pc = <<"main", "composite">>
    /\ \A id \in GoesIds :
          LET stitched == StitchedOf(id)
          IN  /\ \E r \in Rows, c \in Cols :
                    /\ ~OnOwnSide(id, c) /\ IsFinite(stitched.d[r][c])
                    /\ FieldOf(id).d[r][c] = NaN
              /\ \E r \in Rows, c \in Cols :
                    /\ OnOwnSide(id, c) /\ IsFinite(FieldOf(id).d[r][c])
              /\ \E r \in Rows, c \in Cols :
                    /\ OnOwnSide(id, c) /\ stitched.d[r][c] = Inf
                    /\ FieldOf(id).d[r][c] = NaN

\* ------------------------------------------------------------------------
\* C16
\* ------------------------------------------------------------------------

SearchBack == {"goes-19", "goes-18", "goes19", "h9", "gmgsi"}

\* The slots 0, 1, ... (newest first), as many as were visited
NewestFirst(n) == [k \in 1..n |-> k - 1]

\* C16: a search-back downloader visits the slots newest first, at most the
\* configured number of them; a slot with a client error, with no objects or
\* with no matching object is passed over; it stops at the first slot with
\* a matching object, downloads from that slot only and returns its local
\* directory; finding none, it returns None and has downloaded nothing.
\* (No exception ends the search: an error is there only after the return.)
C16_SearchBackStopsAtFirstMatch ==
    dl \in SearchBack =>
        /\ visited = NewestFirst(Len(visited))
        /\ Len(visited) <= max_attempts(dl)
        /\ dl_ret.kind = "unset" => error = "none"
        /\ pc = <<"dl", "loop">> => downloaded = {} /\ listing # "match"
        /\ dl_ret.kind = "dir" =>
              /\ listing = "match"
              /\ dl_ret.slot = visited[Len(visited)]
              /\ downloaded = {dl_ret.slot}
              /\ <<RawDir(dl), DirName(dl, SlotTime(dl, now, dl_ret.slot))>> \in raw_dirs
        /\ dl_ret.kind = "None" =>
              /\ downloaded = {}
              /\ Len(visited) = max_attempts(dl)
        /\ pc = <<"dl", "returned">> => dl_ret.kind \in {"dir", "None"}

\* ------------------------------------------------------------------------
\* C17
\* ------------------------------------------------------------------------

\* C17: auto_download_latest_viirs searches from today back over at most
\* days_back days, downloads the files of the most recent day that has any
\* and of no other day, and returns that day's local directory.
C17_ViirsTakesMostRecentDay ==
    dl = "viirs" =>
        /\ visited = NewestFirst(Len(visited))
        /\ Len(visited) <= days_back
        /\ Cardinality(downloaded) <= 1
        /\ (pc = <<"dl", "returned">> /\ downloaded # {}) =>
              /\ dl_ret.kind = "dir"
              /\ dl_ret.slot \in downloaded
              /\ dl_ret.path =
                    <<RawDir(dl), DirName(dl, SlotTime(dl, now, dl_ret.slot))>>

\* ------------------------------------------------------------------------
\* C18
\* ------------------------------------------------------------------------

\* The entry the downloader has just written
Written == dl_ret.path[2]

\* The datetime fields of the slot a directory was written for, as the
\* loader's format reads them.
SlotFields(d, t) ==
    IF d = "h9"
    THEN <<Year(t), Month(t) * 100 + DayOfMonth(t), Hour(t), Minute(t)>>
    ELSE <<Year(t), DayOfYear(t), Hour(t), 0>>

\* The written directory is of the newest slot: every other timestamp
\* directory of the base directory is of an earlier time.
NewestWritten ==
    \A e \in Dirs(dl) :
        (e # Written /\ ParseDir(dl, e).ok) =>
            Earlier(ParseDir(dl, e).ts, ParseDir(dl, Written).ts)

\* C18: the loader picks, among the entries of its base directory that pass
\* its name filter, the one whose name parses to the greatest timestamp; a
\* name written by grab_raw_h9_data or grab_raw_goes-18-19_data passes the
\* filter and parses to the time of its slot; so the directory just
\* written for the newest slot is the one the loader selects.
C18_LoaderSelectsNewestWritten ==
    dl \in Rendered =>
        /\ dl_ret.kind = "dir" =>
              /\ DirFilter(dl, Written)
              /\ ParseDir(dl, Written).ok
              /\ ParseDir(dl, Written).ts
                    = SlotFields(dl, SlotTime(dl, now, dl_ret.slot))
        /\ pc = <<"dl", "found">> =>
              /\ <<RawDir(dl), latest_dir>> \in raw_dirs
              /\ DirFilter(dl, latest_dir)
              /\ \A e \in Dirs(dl) :
                    e # latest_dir =>
                        Earlier(ParseDir(dl, e).ts, ParseDir(dl, latest_dir).ts)
              /\ (dl_ret.kind = "dir" /\ NewestWritten) => latest_dir = Written

\* The loader selected the directory the downloader had just written, in a
\* base directory that also held a directory of the year before and an
\* entry the filter rejects.
C18_Witness ==
    /\ dl \in Rendered
    /\ pc = <<"dl", "found">>
    /\ dl_ret.kind = "dir"
    /\ latest_dir = Written
    /\ <<RawDir(dl), StrayEntry>> \in raw_dirs
    /\ \E e \in Dirs(dl) :
          ParseDir(dl, e).ts[1] < ParseDir(dl, latest_dir).ts[1]

\* ------------------------------------------------------------------------
\* C19
\* ------------------------------------------------------------------------

\* a has shape (h, w)
HasShape(a, h, w) ==
    /\ a.h = h /\ a.w = w
    /\ DOMAIN a.d = 0..(h - 1)
    /\ \A r \in 0..(h - 1) : DOMAIN a.d[r] = 0..(w - 1)

\* C19: every field a loader returns, and the composite, has the shape
\* (H_full, W_full); the stitch, the masking and the merge keep that shape.
C19_ShapesAreFullGrid ==
    script = "render_imagery" =>
        /\ \A s \in Sats : FieldOf(s) # NoArr => HasShape(FieldOf(s), H_full, W_full)
        /\ pc[1] = "h9" /\ pc[2] \in {"mask", "return"} =>
              HasShape(arrA, H_full, W_full)
        /\ pc[1] \in GoesIds /\ pc[2] \in {"mask", "return"} =>
              HasShape(arr_full, H_full, W_full)
        /\ pc[1] = "g19" => h9_arr # NoArr
        /\ pc[1] = "g18" => h9_arr # NoArr /\ g19_arr # NoArr
        /\ (pc = <<"main", "composite">> \/ Composited) =>
              \A s \in Sats : FieldOf(s) # NoArr
        /\ Composited => HasShape(composite, H_full, W_full)

\* A composite of the full shape was merged from three fields that hold
\* data, the GOES ones stitched from the overflow window and masked.
C19_Witness ==
    /\ Composited
    /\ W_full > 0 /\ H_full > 0
    /\ HasShape(composite, H_full, W_full)
    /\ \A s \in Sats :
          /\ HasShape(FieldOf(s), H_full, W_full)
          /\ \E r \in Rows, c \in Cols : IsFinite(FieldOf(s).d[r][c])
    /\ \A id \in GoesIds : lon_mask[id] # {} /\ lon_mask[id] # Cols

\* ------------------------------------------------------------------------
\* C20
\* ------------------------------------------------------------------------

\* Every cell of a is a finite value or NaN.
NoInfinity(a) ==
    \A r \in DOMAIN a.d : \A c \in DOMAIN a.d[r] : IsFinite(a.d[r][c]) \/ a.d[r][c] = NaN

\* C20: every cell of every field handed to the merge, and every cell of
\* the composite (those copied from GOES-18 without a test included), is
\* finite or NaN: an infinity that resampling produced never reaches the
\* composite.
C20_NoInfinityReachesComposite ==
    /\ \A s \in Sats : NoInfinity(FieldOf(s))
    /\ NoInfinity(composite)

\* Resampling produced infinities for all three satellites, one of them in
\* a cell that the merge took from GOES-18, and the composite is NaN there.
C20_Witness ==
    /\ Composited
    /\ \A s \in Sats : fs[s] = "inf"
    /\ \E r \in Rows, c \in Cols :
          /\ c \in lon_mask["g18"]
          /\ StitchedOf("g18").d[r][c] = Inf
          /\ g19_arr.d[r][c] = NaN /\ h9_arr.d[r][c] = NaN
          /\ composite.d[r][c] = NaN

====
